---- MODULE Spec2Model ----
(***************************************************************************)
(* Model of src/botCS.py: the Telegram command router get_text_messages.  *)
(* One handler invocation runs per inbound text message.  An invocation   *)
(* is a sequence of steps named after the source line they execute (L17   *)
(* is the pymysql.connect of the '/start' branch, L32 its requests.post,  *)
(* and so on).  The process-wide flag asd and the users table are shared   *)
(* by all invocations; everything else is local to one invocation.        *)
(*                                                                         *)
(* Spec     : invocations run one at a time (the sequential reference     *)
(*            behaviour: a message is received only when no handler runs) *)
(* SpecConc : invocations of the worker threads interleave step by step   *)
(* SpecReg  : as Spec, with a record of how far the invocations handled   *)
(*            last have got through a registration                        *)
(***************************************************************************)
EXTENDS Integers, Sequences, FiniteSets, TLC

VARIABLES
    asd,        \* the global flag "awaiting api key" (botCS.py:10)
    users,      \* the rows of table `users`, in insertion order
    pc,         \* per worker: the line its handler invocation is at
    msg,        \* per worker: the message being handled (from_user.id, text)
    row,        \* per worker: the result of cursor.fetchone(), <<>> is None
    conn,       \* per worker: TRUE while the connection it opened is open
    tx,         \* per worker: the row inserted but not yet committed
    resp,       \* per worker: the response r of requests.get
    ntext,      \* per worker: str(r.json())
    http,       \* per worker: HTTP calls issued by the current invocation
    out,        \* per worker: messages sent by the current invocation
    asd0,       \* per worker: value of asd when the invocation started
    users0,     \* per worker: the users table when the invocation started
    activator,  \* the sender whose '/start' last set asd to True, <<>> if none
    received,   \* every <<sender, text>> the handler was ever called with
    prev,       \* the '/status' report of the invocation handled last, if any
    nmsgs,      \* number of messages received so far
    hist,       \* counts of prompts and activations, and how far the last
                \* invocations have got through a registration
    oops        \* the state of one call into the vendored oops library

botvars == <<asd, users, pc, msg, row, conn, tx, resp, ntext, http, out,
             asd0, users0, activator, received, prev, nmsgs, hist>>

vars == <<botvars, oops>>

----------------------------------------------------------------------------
(* Bounds *)

\* messages received in a run of Spec
MaxMsgs == 5

\* messages received in a run of SpecConc
MaxConcMsgs == 3

\* messages received in a run of SpecReg
MaxRegMsgs == 4

----------------------------------------------------------------------------
(* The environment: senders, message texts, worker threads, API replies *)

Workers == {"w1", "w2"}

Senders == {1, 2}

Commands == {"/start", "/stop", "/status"}

Texts == Commands \cup {"/help", "kA", "kB"}

Base == "https://cw-serv.ru/api/key/"

PromptText == "Vvedite api key: "

NoMsg == [from |-> 0, text |-> ""]

NoResp == [ok |-> FALSE, body |-> <<>>]

NoReport == [from |-> 0, body |-> <<>>, text |-> <<>>]

\* no registration is under way
NoReg == [stage |-> 0, who |-> 0, key |-> ""]

\* Parsed JSON bodies of the data endpoint: a dict as a sequence of
\* <<key, value>> pairs; a key or value is an int [int |-> n] or a str
\* [str |-> its characters].
N(n) == [int |-> n]

K(c) == [str |-> <<c>>]

Bodies ==
    { <<>>,
      << <<K("a"), N(1)>> >>,
      << <<K("a"), N(1)>>, <<K("b"), N(2)>> >>,
      << <<K("b"), N(12)>>, <<K("s"), [str |-> <<"x", ",", "y">>]>> >> }

\* What requests.get can return: a body that parses, or one that does not.
Responses == { [ok |-> TRUE, body |-> b] : b \in Bodies }
             \cup { [ok |-> FALSE, body |-> <<>>] }

\* the oops library at rest: no call in progress
OopsIdle ==
    [fn |-> "none", filters |-> <<>>, publisher |-> <<>>, publishers |-> <<>>,
     report0 |-> 0, report |-> 0, pc |-> "idle", i |-> 0, chain |-> <<>>,
     ret |-> <<>>, calls |-> <<>>, result |-> [kind |-> "pending", ids |-> <<>>],
     inherit_id |-> FALSE, channel |-> FALSE, wire |-> 0, fault |-> "none",
     disk |-> <<>>, j |-> 0,
     body |-> [type |-> "bytes", data |-> ""], sentinel |-> "None",
     stopping |-> FALSE, bound |-> FALSE]

----------------------------------------------------------------------------
(* Pure helpers *)

\* "https://cw-serv.ru/api/key/%s/action/<action>" % api_key
Url(api_key, action) == <<Base, api_key, "/action/", action>>

Digit(n) ==
    CASE n = 0 -> "0" [] n = 1 -> "1" [] n = 2 -> "2" [] n = 3 -> "3"
      [] n = 4 -> "4" [] n = 5 -> "5" [] n = 6 -> "6" [] n = 7 -> "7"
      [] n = 8 -> "8" [] n = 9 -> "9"

RECURSIVE IntStr(_)
IntStr(n) == IF n < 10 THEN <<Digit(n)>>
             ELSE IntStr(n \div 10) \o <<Digit(n % 10)>>

\* repr() of a dict key or value: an int as its digits, a str in quotes
Repr(v) == IF "int" \in DOMAIN v THEN IntStr(v.int)
           ELSE <<"'">> \o v.str \o <<"'">>

RECURSIVE Items(_)
Items(d) ==
    IF d = <<>> THEN <<>>
    ELSE LET item == Repr(d[1][1]) \o <<":", " ">> \o Repr(d[1][2])
         IN IF Len(d) = 1 THEN item
            ELSE item \o <<",", " ">> \o Items(Tail(d))

\* str(r.json()) for a dict
PyStr(d) == <<"{">> \o Items(d) \o <<"}">>

\* ntext.replace(',', '\n')
ReplaceComma(s) == [i \in 1..Len(s) |-> IF s[i] = "," THEN "\n" ELSE s[i]]

\* rows of table t the query SELECT api_key ... WHERE user_id=name matches
Matching(t, name) == { i \in 1..Len(t) : t[i].user_id = name }

----------------------------------------------------------------------------
(* Initial state: module load, asd = False, no handler running.  The users *)
(* table is the external store; it starts empty.                           *)

BotInit ==
    /\ asd = FALSE
    /\ users = <<>>
    /\ pc = [w \in Workers |-> "idle"]
    /\ msg = [w \in Workers |-> NoMsg]
    /\ row = [w \in Workers |-> <<>>]
    /\ conn = [w \in Workers |-> FALSE]
    /\ tx = [w \in Workers |-> <<>>]
    /\ resp = [w \in Workers |-> NoResp]
    /\ ntext = [w \in Workers |-> <<>>]
    /\ http = [w \in Workers |-> <<>>]
    /\ out = [w \in Workers |-> <<>>]
    /\ asd0 = [w \in Workers |-> FALSE]
    /\ users0 = [w \in Workers |-> <<>>]
    /\ activator = <<>>
    /\ received = {}
    /\ prev = NoReport
    /\ nmsgs = 0
    /\ hist = [prompts |-> 0, activations |-> 0, reg |-> NoReg]

\* the bot itself never calls into the oops library
Init == BotInit /\ oops = OopsIdle

----------------------------------------------------------------------------
(* Steps of one handler invocation *)

\* the framework calls get_text_messages(message) on worker w
Recv(w, s, t) ==
    /\ pc[w] = "idle"
    /\ nmsgs < MaxMsgs
    /\ nmsgs' = nmsgs + 1
    /\ msg' = [msg EXCEPT ![w] = [from |-> s, text |-> t]]
    /\ asd0' = [asd0 EXCEPT ![w] = asd]
    /\ users0' = [users0 EXCEPT ![w] = users]
    /\ pc' = [pc EXCEPT ![w] = "L16"]
    /\ received' = received \cup {<<s, t>>}
    /\ UNCHANGED <<asd, users, row, conn, tx, resp, ntext, http, out, activator,
                   prev, hist, oops>>

\* sequential delivery: no other invocation is in progress
Receive(w, s, t) ==
    /\ \A v \in Workers : pc[v] = "idle"
    /\ Recv(w, s, t)

\* sequential delivery in the runs that keep the record of registrations
ReceiveReg(w, s, t) ==
    /\ nmsgs < MaxRegMsgs
    /\ Receive(w, s, t)

\* delivery to a free worker thread while others may be running
ReceiveConc(w, s, t) ==
    /\ nmsgs < MaxConcMsgs
    /\ Recv(w, s, t)

BranchFlagInverted(text, flag) ==
    IF text = "/start" THEN "L17"
    ELSE IF text = "/stop" THEN "L42"
    ELSE IF text = "/status" THEN "L60"
    ELSE IF flag = FALSE THEN "L81"
    ELSE "done"

BranchRegistrationFirst(text, flag) ==
    IF flag = TRUE THEN "L81"
    ELSE IF text = "/start" THEN "L17"
    ELSE IF text = "/stop" THEN "L42"
    ELSE IF text = "/status" THEN "L60"
    ELSE "done"

BranchAlwaysRegisters(text, flag) ==
    IF text = "/start" THEN "L17"
    ELSE IF text = "/stop" THEN "L42"
    ELSE IF text = "/status" THEN "L60"
    ELSE "L81"

\* the if/elif chain of lines 16, 41, 59, 80
Branch(text, flag) ==
    IF text = "/start" THEN "L17"
    ELSE IF text = "/stop" THEN "L42"
    ELSE IF text = "/status" THEN "L60"
    ELSE IF flag = TRUE THEN "L81"
    ELSE "done"

Dispatch(w) ==
    /\ pc[w] = "L16"
    /\ pc' = [pc EXCEPT ![w] = Branch(msg[w].text, asd)]
    /\ UNCHANGED <<asd, users, msg, row, conn, tx, resp, ntext, http, out,
                   asd0, users0, activator, received, prev, nmsgs, hist, oops>>

AfterConnect(l) ==
    CASE l = "L17" -> "L23" [] l = "L42" -> "L48" [] l = "L60" -> "L66"
      [] l = "L81" -> "L88"

\* conn = pymysql.connect(...); cursor = conn.cursor()
Connect(w) ==
    /\ pc[w] \in {"L17", "L42", "L60", "L81"}
    /\ conn' = [conn EXCEPT ![w] = TRUE]
    /\ pc' = [pc EXCEPT ![w] = AfterConnect(pc[w])]
    /\ UNCHANGED <<asd, users, msg, row, tx, resp, ntext, http, out,
                   asd0, users0, activator, received, prev, nmsgs, hist, oops>>

AfterSelect(l) ==
    CASE l = "L23" -> "L26" [] l = "L48" -> "L51" [] l = "L66" -> "L69"

SelectNoWhere(w) ==
    /\ pc[w] \in {"L23", "L48", "L66"}
    /\ IF users = <<>>
       THEN row' = [row EXCEPT ![w] = <<>>]
       ELSE \E i \in 1..Len(users) :
                row' = [row EXCEPT ![w] = <<users[i].api_key>>]
    /\ pc' = [pc EXCEPT ![w] = AfterSelect(pc[w])]
    /\ UNCHANGED <<asd, users, msg, conn, tx, resp, ntext, http, out,
                   asd0, users0, activator, received, prev, nmsgs, hist, oops>>

SelectLastRow(w) ==
    /\ pc[w] \in {"L23", "L48", "L66"}
    /\ IF users = <<>>
       THEN row' = [row EXCEPT ![w] = <<>>]
       ELSE row' = [row EXCEPT ![w] = <<users[Len(users)].api_key>>]
    /\ pc' = [pc EXCEPT ![w] = AfterSelect(pc[w])]
    /\ UNCHANGED <<asd, users, msg, conn, tx, resp, ntext, http, out,
                   asd0, users0, activator, received, prev, nmsgs, hist, oops>>

\* cursor.execute(SELECT ...); row = cursor.fetchone(): None when no row
\* matches, otherwise one of the matching rows (the query has no ORDER BY)
Select(w) ==
    /\ pc[w] \in {"L23", "L48", "L66"}
    /\ IF Matching(users, msg[w].from) = {}
       THEN row' = [row EXCEPT ![w] = <<>>]
       ELSE \E i \in Matching(users, msg[w].from) :
                row' = [row EXCEPT ![w] = <<users[i].api_key>>]
    /\ pc' = [pc EXCEPT ![w] = AfterSelect(pc[w])]
    /\ UNCHANGED <<asd, users, msg, conn, tx, resp, ntext, http, out,
                   asd0, users0, activator, received, prev, nmsgs, hist, oops>>

AfterClose(l) ==
    CASE l = "L26" -> "L27" [] l = "L51" -> "L52" [] l = "L69" -> "L70"
      [] l = "L90" -> "L92"

CloseForgotten(w) ==
    /\ pc[w] \in {"L26", "L51", "L69", "L90"}
    /\ pc' = [pc EXCEPT ![w] = AfterClose(pc[w])]
    /\ UNCHANGED <<asd, users, msg, row, conn, tx, resp, ntext, http, out,
                   asd0, users0, activator, received, prev, nmsgs, hist, oops>>

\* conn.close()
Close(w) ==
    /\ pc[w] \in {"L26", "L51", "L69", "L90"}
    /\ conn' = [conn EXCEPT ![w] = FALSE]
    /\ pc' = [pc EXCEPT ![w] = AfterClose(pc[w])]
    /\ UNCHANGED <<asd, users, msg, row, tx, resp, ntext, http, out,
                   asd0, users0, activator, received, prev, nmsgs, hist, oops>>

StartBranchInverted(r, flag) ==
    IF r # <<>> THEN "L32" ELSE IF flag = TRUE THEN "L38" ELSE "done"

StartBranchAlwaysPrompt(r, flag) ==
    IF r # <<>> THEN "L32" ELSE "L38"

\* '/start', lines 27 and 37: if row != None ... elif asd == False ...
StartBranch(r, flag) ==
    IF r # <<>> THEN "L32" ELSE IF flag = FALSE THEN "L38" ELSE "done"

Test27(w) ==
    /\ pc[w] = "L27"
    /\ pc' = [pc EXCEPT ![w] = StartBranch(row[w], asd)]
    /\ UNCHANGED <<asd, users, msg, row, conn, tx, resp, ntext, http, out,
                   asd0, users0, activator, received, prev, nmsgs, hist, oops>>

\* '/stop' line 52 and '/status' line 70: if row != None
Test52(w) ==
    /\ pc[w] = "L52"
    /\ pc' = [pc EXCEPT ![w] = IF row[w] # <<>> THEN "L57" ELSE "done"]
    /\ UNCHANGED <<asd, users, msg, row, conn, tx, resp, ntext, http, out,
                   asd0, users0, activator, received, prev, nmsgs, hist, oops>>

Test70(w) ==
    /\ pc[w] = "L70"
    /\ pc' = [pc EXCEPT ![w] = IF row[w] # <<>> THEN "L75" ELSE "done"]
    /\ UNCHANGED <<asd, users, msg, row, conn, tx, resp, ntext, http, out,
                   asd0, users0, activator, received, prev, nmsgs, hist, oops>>

PostActionStop(l) == "stop"

\* the action literal of the URL built at lines 29 and 54
PostAction(l) == IF l = "L32" THEN "start" ELSE "stop"

\* requests.post(servstop)
Post(w) ==
    /\ pc[w] \in {"L32", "L57"}
    /\ http' = [http EXCEPT ![w] =
           Append(@, [method |-> "POST", url |-> Url(row[w][1], PostAction(pc[w]))])]
    /\ pc' = [pc EXCEPT ![w] = "done"]
    /\ UNCHANGED <<asd, users, msg, row, conn, tx, resp, ntext, out,
                   asd0, users0, activator, received, prev, nmsgs, hist, oops>>

\* bot.send_message(message.from_user.id, prompt)
Send38(w) ==
    /\ pc[w] = "L38"
    /\ out' = [out EXCEPT ![w] = Append(@, [to |-> msg[w].from, text |-> PromptText])]
    /\ pc' = [pc EXCEPT ![w] = "L39"]
    /\ hist' = [hist EXCEPT !.prompts = @ + 1]
    /\ UNCHANGED <<asd, users, msg, row, conn, tx, resp, ntext, http,
                   asd0, users0, activator, received, prev, nmsgs, oops>>

Set39Forgotten(w) ==
    /\ pc[w] = "L39"
    /\ pc' = [pc EXCEPT ![w] = "done"]
    /\ UNCHANGED <<asd, users, msg, row, conn, tx, resp, ntext, http, out,
                   asd0, users0, activator, received, prev, nmsgs, hist, oops>>

\* asd = True
Set39(w) ==
    /\ pc[w] = "L39"
    /\ asd' = TRUE
    /\ activator' = <<msg[w].from>>
    /\ hist' = [hist EXCEPT !.activations = IF asd = FALSE THEN @ + 1 ELSE @]
    /\ pc' = [pc EXCEPT ![w] = "done"]
    /\ UNCHANGED <<users, msg, row, conn, tx, resp, ntext, http, out,
                   asd0, users0, received, prev, nmsgs, oops>>

\* r = requests.get(servstat)
Get75(w) ==
    /\ pc[w] = "L75"
    /\ http' = [http EXCEPT ![w] =
           Append(@, [method |-> "GET", url |-> Url(row[w][1], "data")])]
    /\ \E r \in Responses : resp' = [resp EXCEPT ![w] = r]
    /\ pc' = [pc EXCEPT ![w] = "L76"]
    /\ UNCHANGED <<asd, users, msg, row, conn, tx, ntext, out,
                   asd0, users0, activator, received, prev, nmsgs, hist, oops>>

Json76Caught(w) ==
    /\ pc[w] = "L76"
    /\ ntext' = [ntext EXCEPT ![w] =
           IF resp[w].ok THEN PyStr(resp[w].body) ELSE <<"e", "r", "r">>]
    /\ pc' = [pc EXCEPT ![w] = "L79"]
    /\ UNCHANGED <<asd, users, msg, row, conn, tx, resp, http, out,
                   asd0, users0, activator, received, prev, nmsgs, hist, oops>>

\* ntext = str(r.json()); r.json() raises on a body that is not JSON
Json76(w) ==
    /\ pc[w] = "L76"
    /\ IF resp[w].ok
       THEN /\ ntext' = [ntext EXCEPT ![w] = PyStr(resp[w].body)]
            /\ pc' = [pc EXCEPT ![w] = "L79"]
       ELSE /\ pc' = [pc EXCEPT ![w] = "raised"]
            /\ UNCHANGED ntext
    /\ UNCHANGED <<asd, users, msg, row, conn, tx, resp, http, out,
                   asd0, users0, activator, received, prev, nmsgs, hist, oops>>

Send79SetsFlag(w) ==
    /\ pc[w] = "L79"
    /\ out' = [out EXCEPT ![w] =
           Append(@, [to |-> msg[w].from, text |-> ReplaceComma(ntext[w])])]
    /\ asd' = TRUE
    /\ pc' = [pc EXCEPT ![w] = "done"]
    /\ UNCHANGED <<users, msg, row, conn, tx, resp, ntext, http,
                   asd0, users0, activator, received, prev, nmsgs, hist, oops>>

\* newtext = ntext.replace(',', '\n'); bot.send_message(from_user.id, newtext)
Send79(w) ==
    /\ pc[w] = "L79"
    /\ out' = [out EXCEPT ![w] =
           Append(@, [to |-> msg[w].from, text |-> ReplaceComma(ntext[w])])]
    /\ pc' = [pc EXCEPT ![w] = "done"]
    /\ UNCHANGED <<asd, users, msg, row, conn, tx, resp, ntext, http,
                   asd0, users0, activator, received, prev, nmsgs, hist, oops>>

InsertArgsOtherUser(m) ==
    [user_id |-> IF m.from = 1 THEN 2 ELSE 1, api_key |-> m.text]

\* args = (str(name), str(message.text))
InsertArgs(m) == [user_id |-> m.from, api_key |-> m.text]

Execute88ForPrompted(w) ==
    /\ pc[w] = "L88"
    /\ tx' = [tx EXCEPT ![w] =
           <<[user_id |-> IF activator # <<>> THEN activator[1] ELSE msg[w].from,
              api_key |-> msg[w].text]>>]
    /\ pc' = [pc EXCEPT ![w] = "L89"]
    /\ UNCHANGED <<asd, users, msg, row, conn, resp, ntext, http, out,
                   asd0, users0, activator, received, prev, nmsgs, hist, oops>>

\* cursor.execute(INSERT ...): the row is written inside the open transaction
Execute88(w) ==
    /\ pc[w] = "L88"
    /\ tx' = [tx EXCEPT ![w] = <<InsertArgs(msg[w])>>]
    /\ pc' = [pc EXCEPT ![w] = "L89"]
    /\ UNCHANGED <<asd, users, msg, row, conn, resp, ntext, http, out,
                   asd0, users0, activator, received, prev, nmsgs, hist, oops>>

Commit89Upsert(w) ==
    /\ pc[w] = "L89"
    /\ users' = SelectSeq(users, LAMBDA r : r.user_id # tx[w][1].user_id) \o tx[w]
    /\ tx' = [tx EXCEPT ![w] = <<>>]
    /\ pc' = [pc EXCEPT ![w] = "L90"]
    /\ UNCHANGED <<asd, msg, row, conn, resp, ntext, http, out,
                   asd0, users0, activator, received, prev, nmsgs, hist, oops>>

\* conn.commit(): the inserted row becomes a row of the table
Commit89(w) ==
    /\ pc[w] = "L89"
    /\ users' = users \o tx[w]
    /\ tx' = [tx EXCEPT ![w] = <<>>]
    /\ pc' = [pc EXCEPT ![w] = "L90"]
    /\ UNCHANGED <<asd, msg, row, conn, resp, ntext, http, out,
                   asd0, users0, activator, received, prev, nmsgs, hist, oops>>

Clear92Forgotten(w) ==
    /\ pc[w] = "L92"
    /\ pc' = [pc EXCEPT ![w] = "done"]
    /\ UNCHANGED <<asd, users, msg, row, conn, tx, resp, ntext, http, out,
                   asd0, users0, activator, received, prev, nmsgs, hist, oops>>

\* asd = False
Clear92(w) ==
    /\ pc[w] = "L92"
    /\ asd' = FALSE
    /\ pc' = [pc EXCEPT ![w] = "done"]
    /\ UNCHANGED <<users, msg, row, conn, tx, resp, ntext, http, out,
                   asd0, users0, activator, received, prev, nmsgs, hist, oops>>

\* lines whose call can raise: connect, execute, commit, requests.post,
\* requests.get and bot.send_message.  Nothing in the handler catches the
\* exception; an uncommitted insert is lost with its connection.
Raising == {"L17", "L42", "L60", "L81", "L23", "L48", "L66", "L88", "L89",
            "L32", "L57", "L75", "L38", "L79"}

RaiseAfterCommit(w) ==
    /\ pc[w] \in Raising
    /\ pc' = [pc EXCEPT ![w] = "raised"]
    /\ users' = users \o tx[w]
    /\ tx' = [tx EXCEPT ![w] = <<>>]
    /\ UNCHANGED <<asd, msg, row, conn, resp, ntext, http, out,
                   asd0, users0, activator, received, prev, nmsgs, hist, oops>>

Raise(w) ==
    /\ pc[w] \in Raising
    /\ pc' = [pc EXCEPT ![w] = "raised"]
    /\ tx' = [tx EXCEPT ![w] = <<>>]
    /\ UNCHANGED <<asd, users, msg, row, conn, resp, ntext, http, out,
                   asd0, users0, activator, received, prev, nmsgs, hist, oops>>

\* what is remembered of a finished invocation: the report a '/status'
\* sent, NoReport for every other invocation
Report(l, m, r, o) ==
    IF l = "done" /\ m.text = "/status" /\ o # <<>>
    THEN [from |-> m.from, body |-> r.body, text |-> o[1].text]
    ELSE NoReport

\* how far the invocations handled last have got through a registration,
\* given the invocation that now ends at line l with message m, started with
\* table t and flag f: stage 1 after a '/start' of an unbound sender handled
\* with the flag false, stage 2 when the invocation after it handled a text
\* of the same sender that is no command, stage 0 otherwise
Registration(reg, l, m, t, f) ==
    IF l = "done" /\ reg.stage = 1 /\ m.from = reg.who /\ m.text \notin Commands
    THEN [stage |-> 2, who |-> m.from, key |-> m.text]
    ELSE IF l = "done" /\ m.text = "/start" /\ Matching(t, m.from) = {}
            /\ f = FALSE
    THEN [stage |-> 1, who |-> m.from, key |-> ""]
    ELSE NoReg

\* the invocation is over (normal return or the exception left the
\* handler): its locals are dropped and the worker is free again
Returning(w, reg) ==
    /\ pc[w] \in {"done", "raised"}
    /\ pc' = [pc EXCEPT ![w] = "idle"]
    /\ msg' = [msg EXCEPT ![w] = NoMsg]
    /\ row' = [row EXCEPT ![w] = <<>>]
    /\ conn' = [conn EXCEPT ![w] = FALSE]
    /\ tx' = [tx EXCEPT ![w] = <<>>]
    /\ resp' = [resp EXCEPT ![w] = NoResp]
    /\ ntext' = [ntext EXCEPT ![w] = <<>>]
    /\ http' = [http EXCEPT ![w] = <<>>]
    /\ out' = [out EXCEPT ![w] = <<>>]
    /\ asd0' = [asd0 EXCEPT ![w] = FALSE]
    /\ users0' = [users0 EXCEPT ![w] = <<>>]
    /\ prev' = Report(pc[w], msg[w], resp[w], out[w])
    /\ hist' = [hist EXCEPT !.reg = reg]
    /\ UNCHANGED <<asd, users, activator, received, nmsgs, oops>>

\* the return, with no record kept of registrations
Return(w) == Returning(w, NoReg)

\* the return, with the record of the registration under way brought up to
\* date
ReturnReg(w) ==
    Returning(w, Registration(hist.reg, pc[w], msg[w], users0[w], asd0[w]))

\* one step of the handler body
Handle(w) ==
    \/ Dispatch(w)
    \/ Connect(w)
    \/ Select(w)
    \/ Close(w)
    \/ Test27(w)
    \/ Test52(w)
    \/ Test70(w)
    \/ Post(w)
    \/ Send38(w)
    \/ Set39(w)
    \/ Get75(w)
    \/ Json76(w)
    \/ Send79(w)
    \/ Execute88(w)
    \/ Commit89(w)
    \/ Clear92(w)
    \/ Raise(w)

Step(w) == Handle(w) \/ Return(w)

StepReg(w) == Handle(w) \/ ReturnReg(w)

Next ==
    \/ \E w \in Workers, s \in Senders, t \in Texts : Receive(w, s, t)
    \/ \E w \in Workers : Step(w)

NextConc ==
    \/ \E w \in Workers, s \in Senders, t \in Texts : ReceiveConc(w, s, t)
    \/ \E w \in Workers : Step(w)

NextReg ==
    \/ \E w \in Workers, s \in Senders, t \in Texts : ReceiveReg(w, s, t)
    \/ \E w \in Workers : StepReg(w)

Spec == Init /\ [][Next]_vars

SpecConc == Init /\ [][NextConc]_vars

SpecReg == Init /\ [][NextReg]_vars

----------------------------------------------------------------------------
(* The vendored oops library: Config.publish (oops/config.py) and the      *)
(* publishers publish_to_many and publish_with_fallback                     *)
(* (oops/publishers.py).  One run of SpecOops is one call of one of the     *)
(* three on a report.  An oops id is a positive number, 0 stands for None   *)
(* or a missing 'id' key.  A publisher is modelled by what it returns:      *)
(*   "fail"    nothing is published: [] (old protocol: None)                *)
(*   "fresh"   publishes under an id of its own: [id]                       *)
(*   "inherit" publishes under report['id'] when the report has one         *)
(*   "pair"    publishes twice, as a nested publish_to_many does: [id, id2] *)
(*   "raise"   raises an exception                                          *)

\* longest list of filters of a Config
MaxFilters == 2

\* longest list of publishers passed to a publisher combinator or held in
\* Config.publishers
MaxPubs == 3

Kinds == {"fail", "fresh", "inherit", "pair", "raise"}

\* the publishers of the deprecated Config.publishers list return one id
OldKinds == {"fail", "fresh", "inherit", "raise"}

\* the 'id' of the report passed in: none, or one assigned earlier
ReportIds == {0, 7}

SeqsUpTo(S, n) == UNION { [1..k -> S] : k \in 0..n }

\* a publisher of the new protocol, the idx-th of its list, called with a
\* report whose id is rid
Publish(kind, idx, rid) ==
    CASE kind = "fresh" -> <<idx>>
      [] kind = "inherit" -> IF rid # 0 THEN <<rid>> ELSE <<idx>>
      [] kind = "pair" -> <<idx, idx + 10>>
      [] OTHER -> <<>>

\* a publisher of the old protocol: an id, or None
OldPublish(kind, idx, rid) ==
    CASE kind = "fresh" -> idx
      [] kind = "inherit" -> IF rid # 0 THEN rid ELSE idx
      [] OTHER -> 0

\* convert_result_to_list: [ret] if ret else []
ConvertResultToList(v) == IF v # 0 THEN <<v>> ELSE <<>>

\* what the idx-th callable of the chain returns
CallResult(p, idx, rid) ==
    IF p.old THEN ConvertResultToList(OldPublish(p.kind, idx, rid))
    ELSE Publish(p.kind, idx, rid)

NewStyle(kinds) == [j \in 1..Len(kinds) |-> [kind |-> kinds[j], old |-> FALSE]]

OldStyle(kinds) == [j \in 1..Len(kinds) |-> [kind |-> kinds[j], old |-> TRUE]]

\* the calls: config.publish(report), publish_to_many(*ps)(report) and
\* publish_with_fallback(*ps)(report)
OopsStart ==
    { [OopsIdle EXCEPT !.fn = "publish", !.filters = f, !.publisher = p,
                       !.publishers = ps, !.report0 = r, !.report = r,
                       !.pc = "filters", !.i = 1] :
        f \in SeqsUpTo(BOOLEAN, MaxFilters),
        p \in SeqsUpTo(Kinds, 1),
        ps \in SeqsUpTo(OldKinds, MaxPubs),
        r \in ReportIds }
    \cup
    { [OopsIdle EXCEPT !.fn = fn, !.chain = NewStyle(ps), !.report0 = r,
                       !.report = r, !.pc = fn, !.i = 1] :
        fn \in {"many", "fallback"},
        ps \in SeqsUpTo(Kinds, MaxPubs),
        r \in ReportIds }

----------------------------------------------------------------------------
(* oops_amqp.Publisher.__call__ (oops_amqp/publisher.py).  The connection   *)
(* factory, connect() and basic_publish either succeed, fail with an        *)
(* amqplib connection error, or fail with another amqplib error.            *)

\* publisher.py line 86: "OOPS-%s" % md5(dumps(report)).hexdigest(), the
\* hash of the report without its 'id' key
OopsId == 99

NetOutcomes == {"ok", "connection_error", "error"}

\* publisher(report): the thread may hold a channel from an earlier call
AmqpStart ==
    { [OopsIdle EXCEPT !.fn = "amqp", !.inherit_id = inh, !.channel = ch,
                       !.report0 = r, !.report = r, !.pc = "L81"] :
        inh \in BOOLEAN, ch \in BOOLEAN, r \in ReportIds }

----------------------------------------------------------------------------
(* DateDirRepo.republish (oops_datedir_repo/repository.py).  The disk is    *)
(* the sequence of date directories; prune is TRUE of a directory older     *)
(* than two days.  A file is a "tmp" file (name ending in .tmp), a          *)
(* "report", an "empty" file (serializer.read raises IOError 'Empty OOPS    *)
(* Report') or an "unreadable" one (serializer.read raises another          *)
(* IOError).                                                                *)

\* date directories under the repository root
MaxDirs == 2

\* files in the repository, over all its date directories
MaxFiles == 3

FileKinds == {"tmp", "report", "empty", "unreadable"}

File(kind) == [kind |-> kind, there |-> TRUE]

\* the number of files in the first k directories, lens[d] being the number
\* of files in directory d
RECURSIVE FilesUpTo(_, _)
FilesUpTo(lens, k) == IF k = 0 THEN 0 ELSE FilesUpTo(lens, k - 1) + lens[k]

\* the numbers of files per date directory
DiskShapes ==
    { lens \in SeqsUpTo(0..MaxFiles, MaxDirs) :
        FilesUpTo(lens, Len(lens)) <= MaxFiles }

\* the repository holding lens[d] files in directory d: ps[d] tells whether
\* directory d is stale, ks lists the kinds of the files of all directories
Disk(lens, ps, ks) ==
    [d \in DOMAIN lens |->
        [prune |-> ps[d], there |-> TRUE,
         files |-> [f \in 1..lens[d] |-> File(ks[FilesUpTo(lens, d - 1) + f])]]]

\* repo.republish(publisher) is called on some repository
RepublishStart ==
    \E lens \in DiskShapes :
        \E ps \in [DOMAIN lens -> BOOLEAN],
           ks \in [1..FilesUpTo(lens, Len(lens)) -> FileKinds] :
            oops = [OopsIdle EXCEPT !.fn = "republish",
                                    !.disk = Disk(lens, ps, ks),
                                    !.pc = "dirs", !.i = 1]

----------------------------------------------------------------------------
(* Receiver.handle_report (oops_amqp/receiver.py), the basic_consume        *)
(* callback.  A message body is bytes or str; its data is the sentinel      *)
(* text, a bson report, bytes on which bson.loads raises KeyError, bytes    *)
(* on which it raises another exception, or (str only) text that cannot be  *)
(* encoded.                                                                 *)

BodyData == {"stop", "report", "keyerror", "invalid"}

MessageBodies ==
    { [type |-> t, data |-> d] : t \in {"bytes", "str"}, d \in BodyData }
    \cup { [type |-> "str", data |-> "unencodable"] }

\* receiver.py line 58: sentinel is None unless the owner sets it
Sentinels == {"None", "stop"}

\* the callback is called with a message while run_forever runs
ReceiverStart ==
    { [OopsIdle EXCEPT !.fn = "handle_report", !.body = b, !.sentinel = s,
                       !.pc = "L62"] :
        b \in MessageBodies, s \in Sentinels }

InitOops ==
    /\ BotInit
    /\ \/ oops \in OopsStart
       \/ oops \in AmqpStart
       \/ RepublishStart
       \/ oops \in ReceiverStart

Called(who, idx, seen, res) ==
    [who |-> who, idx |-> idx, seen |-> seen, res |-> res]

Returned(kind, ids) == [kind |-> kind, ids |-> ids]

FilterNeverRejects(verdict) == FALSE

\* config.py line 200: if report_filter(report)
FilterRejects(verdict) == verdict = TRUE

\* Config.publish lines 199-201: the next filter is called
PublishFilter ==
    /\ oops.pc = "filters" /\ oops.i <= Len(oops.filters)
    /\ LET call == Called("filter", oops.i, oops.report, <<>>)
       IN IF FilterRejects(oops.filters[oops.i])
          THEN oops' = [oops EXCEPT !.calls = Append(@, call),
                                    !.pc = "returned",
                                    !.result = Returned("None", <<>>)]
          ELSE oops' = [oops EXCEPT !.calls = Append(@, call), !.i = @ + 1]
    /\ UNCHANGED botvars

\* Config.publish lines 206-217: the publisher, if any, and the converted
\* old publishers are handed to publish_to_many
PublishBuild ==
    /\ oops.pc = "filters" /\ oops.i > Len(oops.filters)
    /\ oops' = [oops EXCEPT
           !.chain = NewStyle(oops.publisher) \o OldStyle(oops.publishers),
           !.pc = "many", !.i = 1, !.ret = <<>>]
    /\ UNCHANGED botvars

NextReportIdKept(ret, rid) == rid

\* publishers.py lines 111-112: if ret: report['id'] = ret[-1]
NextReportId(ret, rid) == IF ret # <<>> THEN ret[Len(ret)] ELSE rid

\* publish_to_many lines 110-113: one turn of the loop
ManyCall ==
    /\ oops.pc = "many" /\ oops.i <= Len(oops.chain)
    /\ LET rid == NextReportId(oops.ret, oops.report)
           p == oops.chain[oops.i]
           res == CallResult(p, oops.i, rid)
       IN IF p.kind = "raise"
          THEN oops' = [oops EXCEPT
                   !.report = rid,
                   !.calls = Append(@, Called("pub", oops.i, rid, <<>>)),
                   !.pc = "raised", !.result = Returned("raised", <<>>)]
          ELSE oops' = [oops EXCEPT
                   !.report = rid,
                   !.calls = Append(@, Called("pub", oops.i, rid, res)),
                   !.ret = @ \o res, !.i = @ + 1]
    /\ UNCHANGED botvars

\* publish_to_many line 114: return ret, to Config.publish line 218 or to
\* the caller
ManyReturn ==
    /\ oops.pc = "many" /\ oops.i > Len(oops.chain)
    /\ IF oops.fn = "publish"
       THEN oops' = [oops EXCEPT !.pc = "finish"]
       ELSE oops' = [oops EXCEPT !.pc = "returned",
                                 !.result = Returned("list", oops.ret)]
    /\ UNCHANGED botvars

\* Config.publish lines 219-221: if ret: report['id'] = ret[-1]; return ret
PublishFinish ==
    /\ oops.pc = "finish"
    /\ oops' = [oops EXCEPT
           !.report = IF oops.ret # <<>> THEN oops.ret[Len(oops.ret)] ELSE @,
           !.pc = "returned", !.result = Returned("list", oops.ret)]
    /\ UNCHANGED botvars

FallbackNeverPublished(ret) == FALSE

\* publishers.py line 86: if ret: break
FallbackPublished(ret) == ret # <<>>

\* publish_with_fallback lines 84-87: one turn of the loop
FallbackCall ==
    /\ oops.pc = "fallback" /\ oops.i <= Len(oops.chain)
    /\ LET p == oops.chain[oops.i]
           res == CallResult(p, oops.i, oops.report)
       IN IF p.kind = "raise"
          THEN oops' = [oops EXCEPT
                   !.calls = Append(@, Called("pub", oops.i, oops.report, <<>>)),
                   !.pc = "raised", !.result = Returned("raised", <<>>)]
          ELSE oops' = [oops EXCEPT
                   !.calls = Append(@, Called("pub", oops.i, oops.report, res)),
                   !.ret = @ \o res,
                   !.i = @ + 1,
                   !.pc = IF FallbackPublished(oops.ret \o res)
                          THEN "break" ELSE "fallback"]
    /\ UNCHANGED botvars

\* publish_with_fallback line 88: return ret, after the break or when the
\* publishers are exhausted
FallbackReturn ==
    /\ \/ oops.pc = "break"
       \/ oops.pc = "fallback" /\ oops.i > Len(oops.chain)
    /\ oops' = [oops EXCEPT !.pc = "returned",
                            !.result = Returned("list", oops.ret)]
    /\ UNCHANGED botvars

\* Publisher.__call__ lines 81-92: the report is copied; the copy gets the
\* hash id unless inherit_id is set and the report has an id
AmqpBuild ==
    /\ oops.fn = "amqp" /\ oops.pc = "L81"
    /\ oops' = [oops EXCEPT
           !.wire = IF ~oops.inherit_id \/ oops.report = 0
                    THEN OopsId ELSE oops.report,
           !.pc = "L93"]
    /\ UNCHANGED botvars

\* what publisher(report) returns when it could not publish
Unpublished == Returned("list", <<>>)

\* Publisher.__call__ lines 93-95 with get_channel lines 65-77
AmqpGetChannel ==
    /\ oops.fn = "amqp" /\ oops.pc = "L93"
    /\ IF oops.channel
       THEN oops' = [oops EXCEPT !.pc = "L97"]
       ELSE \E outcome \in NetOutcomes :
                oops' = CASE outcome = "ok" ->
                               [oops EXCEPT !.channel = TRUE, !.pc = "L97"]
                          [] outcome = "connection_error" ->
                               [oops EXCEPT !.fault = "connect",
                                            !.pc = "returned",
                                            !.result = Unpublished]
                          [] OTHER ->
                               [oops EXCEPT !.pc = "raised",
                                            !.result = Returned("raised", <<>>)]
    /\ UNCHANGED botvars

\* Publisher.__call__ lines 96-106: basic_publish and the return
AmqpBasicPublish ==
    /\ oops.fn = "amqp" /\ oops.pc = "L97"
    /\ \E outcome \in NetOutcomes :
           oops' = CASE outcome = "ok" ->
                          [oops EXCEPT
                              !.calls = Append(@, Called("basic_publish", 1,
                                                         oops.wire, <<>>)),
                              !.pc = "returned",
                              !.result = Returned("list", <<oops.wire>>)]
                     [] outcome = "connection_error" ->
                          [oops EXCEPT !.channel = FALSE,
                                       !.fault = "basic_publish",
                                       !.pc = "returned",
                                       !.result = Unpublished]
                     [] OTHER ->
                          [oops EXCEPT !.channel = FALSE,
                                       !.pc = "raised",
                                       !.result = Returned("raised", <<>>)]
    /\ UNCHANGED botvars

\* what the publisher handed to republish returns for the report stored
\* in file <<d, f>>: None or an id (the old protocol), or a list of ids
PublisherReturns(d, f) ==
    { Returned("None", <<>>), Returned("id", <<10 * d + f>>),
      Returned("list", <<>>), Returned("list", <<10 * d + f>>) }

TruthAlways(v) == TRUE

\* repository.py line 190: the truth value of oopsid
Truth(v) == v.kind = "id" \/ (v.kind = "list" /\ v.ids # <<>>)

Unlinked(disk, d, f) == [disk EXCEPT ![d].files[f].there = FALSE]

\* republish lines 167-174: the next date directory is listed; an empty one
\* older than two days is removed
RepublishDir ==
    /\ oops.fn = "republish" /\ oops.pc = "dirs" /\ oops.i <= Len(oops.disk)
    /\ LET dir == oops.disk[oops.i]
       IN oops' = [oops EXCEPT
              !.disk = IF dir.files = <<>> /\ dir.prune
                       THEN [@ EXCEPT ![oops.i].there = FALSE] ELSE @,
              !.pc = "files", !.j = 1]
    /\ UNCHANGED botvars

\* republish lines 175-179: a .tmp file is skipped, and removed when stale
RepublishTmp(d, f) ==
    oops' = [oops EXCEPT
        !.disk = IF oops.disk[d].prune THEN Unlinked(@, d, f) ELSE @,
        !.j = @ + 1]

\* republish lines 180-191 for a file serializer.read rejects: an empty
\* report is not published and is removed when stale, any other IOError
\* propagates
RepublishUnread(d, f) ==
    IF oops.disk[d].files[f].kind = "empty"
    THEN oops' = [oops EXCEPT
             !.disk = IF oops.disk[d].prune THEN Unlinked(@, d, f) ELSE @,
             !.j = @ + 1]
    ELSE oops' = [oops EXCEPT !.pc = "raised",
                              !.result = Returned("raised", <<>>)]

\* republish lines 188-191 for a report that was read: the publisher is
\* called and the file is removed if what it returned is true
RepublishReport(d, f) ==
    \/ \E v \in PublisherReturns(d, f) :
           oops' = [oops EXCEPT
               !.calls = Append(@, Called("pub", <<d, f>>, 0, v)),
               !.disk = IF Truth(v) THEN Unlinked(@, d, f) ELSE @,
               !.j = @ + 1]
    \/ oops' = [oops EXCEPT
           !.calls = Append(@, Called("pub", <<d, f>>, 0,
                                      Returned("raised", <<>>))),
           !.pc = "raised", !.result = Returned("raised", <<>>)]

\* republish lines 175-191: one turn of the loop over the files listed
RepublishFile ==
    /\ oops.fn = "republish" /\ oops.pc = "files"
    /\ oops.j <= Len(oops.disk[oops.i].files)
    /\ LET kind == oops.disk[oops.i].files[oops.j].kind
       IN CASE kind = "tmp" -> RepublishTmp(oops.i, oops.j)
            [] kind = "report" -> RepublishReport(oops.i, oops.j)
            [] OTHER -> RepublishUnread(oops.i, oops.j)
    /\ UNCHANGED botvars

\* republish line 167: the files of the directory are done, the next
\* directory is taken
RepublishNextDir ==
    /\ oops.fn = "republish" /\ oops.pc = "files"
    /\ oops.j > Len(oops.disk[oops.i].files)
    /\ oops' = [oops EXCEPT !.pc = "dirs", !.i = @ + 1]
    /\ UNCHANGED botvars

\* republish: the directories are exhausted, the method returns None
RepublishReturn ==
    /\ oops.fn = "republish" /\ oops.pc = "dirs" /\ oops.i > Len(oops.disk)
    /\ oops' = [oops EXCEPT !.pc = "returned",
                            !.result = Returned("None", <<>>)]
    /\ UNCHANGED botvars

\* receiver.py lines 63-64: a body that is not bytes is encoded
Encode(body) ==
    IF body.type = "bytes" THEN Returned("bytes", <<body.data>>)
    ELSE IF body.data = "unencodable" THEN Returned("raised", <<>>)
    ELSE Returned("bytes", <<body.data>>)

\* bson.loads(body), receiver.py line 70
Loads(data) ==
    CASE data = "report" -> "report"
      [] data = "keyerror" -> "KeyError"
      [] OTHER -> "error"

\* receiver.py line 65: body == self.sentinel
IsSentinel(bytes, sentinel) == sentinel # "None" /\ bytes = sentinel

\* handle_report lines 62-66: the body is made bytes and compared with the
\* sentinel; on a match stopping is set
ReceiverBody ==
    /\ oops.fn = "handle_report" /\ oops.pc = "L62"
    /\ LET enc == Encode(oops.body)
       IN IF enc.kind = "raised"
          THEN oops' = [oops EXCEPT !.pc = "raised",
                                    !.result = Returned("raised", <<>>)]
          ELSE IF IsSentinel(enc.ids[1], oops.sentinel)
          THEN oops' = [oops EXCEPT !.stopping = TRUE, !.pc = "L67"]
          ELSE oops' = [oops EXCEPT !.pc = "L70"]
    /\ UNCHANGED botvars

\* channel.basic_ack(message.delivery_tag): the ack reaches the server, or
\* the call raises
BasicAck ==
    \/ oops' = [oops EXCEPT
           !.calls = Append(@, Called("basic_ack", 1, 0, <<>>)),
           !.pc = "returned", !.result = Returned("None", <<>>)]
    \/ oops' = [oops EXCEPT !.pc = "raised",
                            !.result = Returned("raised", <<>>)]

\* handle_report lines 67-68: the sentinel is acknowledged
ReceiverAckSentinel ==
    /\ oops.fn = "handle_report" /\ oops.pc = "L67"
    /\ BasicAck
    /\ UNCHANGED botvars

\* handle_report lines 69-74: a KeyError of bson.loads is passed over and
\* leaves the name `report` unbound, any other exception propagates
ReceiverLoads ==
    /\ oops.fn = "handle_report" /\ oops.pc = "L70"
    /\ LET r == Loads(oops.body.data)
       IN CASE r = "report" -> oops' = [oops EXCEPT !.bound = TRUE, !.pc = "L75"]
            [] r = "KeyError" -> oops' = [oops EXCEPT !.pc = "L75"]
            [] OTHER -> oops' = [oops EXCEPT
                            !.pc = "raised",
                            !.result = Returned("raised", <<>>)]
    /\ UNCHANGED botvars

ReceiverPublishSwallows ==
    /\ oops.fn = "handle_report" /\ oops.pc = "L75"
    /\ \E how \in {"list", "None", "raised"} :
           oops' = [oops EXCEPT
               !.calls = Append(@, Called("publish", 1, 0,
                                          Returned(how, <<>>))),
               !.pc = "L77"]
    /\ UNCHANGED botvars

\* handle_report line 75: self.config.publish(report) returns the ids or
\* None, or raises; with `report` unbound the line raises UnboundLocalError
\* before the call
ReceiverPublish ==
    /\ oops.fn = "handle_report" /\ oops.pc = "L75"
    /\ IF ~oops.bound
       THEN oops' = [oops EXCEPT !.pc = "raised",
                                 !.result = Returned("raised", <<>>)]
       ELSE \E how \in {"list", "None", "raised"} :
                oops' = [oops EXCEPT
                    !.calls = Append(@, Called("publish", 1, 0,
                                               Returned(how, <<>>))),
                    !.pc = IF how = "raised" THEN "raised" ELSE "L77",
                    !.result = IF how = "raised"
                               THEN Returned("raised", <<>>) ELSE @]
    /\ UNCHANGED botvars

\* handle_report line 77: the published message is acknowledged
ReceiverAck ==
    /\ oops.fn = "handle_report" /\ oops.pc = "L77"
    /\ BasicAck
    /\ UNCHANGED botvars

NextOops ==
    \/ PublishFilter
    \/ PublishBuild
    \/ ManyCall
    \/ ManyReturn
    \/ PublishFinish
    \/ FallbackCall
    \/ FallbackReturn
    \/ AmqpBuild
    \/ AmqpGetChannel
    \/ AmqpBasicPublish
    \/ RepublishDir
    \/ RepublishFile
    \/ RepublishNextDir
    \/ RepublishReturn
    \/ ReceiverBody
    \/ ReceiverAckSentinel
    \/ ReceiverLoads
    \/ ReceiverPublish
    \/ ReceiverAck

SpecOops == InitOops /\ [][NextOops]_vars

----------------------------------------------------------------------------
(* Vocabulary of the properties *)

\* worker w has finished handling its message without an exception
Finished(w) == pc[w] = "done"

\* the sender of w's message had no row in users when its handling started
WasUnbound(w) == Matching(users0[w], msg[w].from) = {}

\* the keys bound to the sender of w's message when its handling started
KeysBefore(w) ==
    { users0[w][i].api_key : i \in Matching(users0[w], msg[w].from) }

PromptTo(s) == [to |-> s, text |-> PromptText]

Call(method, key, action) == [method |-> method, url |-> Url(key, action)]

----------------------------------------------------------------------------
(* Properties of the sequential behaviour, Spec *)

\* C1: '/start' from a sender with no binding while the flag is false issues
\* no HTTP call, sends that sender exactly one key prompt and leaves the
\* flag true.
C1_UnboundStartPrompts ==
    \A w \in Workers :
        (Finished(w) /\ msg[w].text = "/start" /\ WasUnbound(w)
                     /\ asd0[w] = FALSE)
        => /\ http[w] = <<>>
           /\ out[w] = <<PromptTo(msg[w].from)>>
           /\ asd = TRUE

C1_Witness ==
    \E w \in Workers :
        /\ Finished(w) /\ msg[w].text = "/start" /\ WasUnbound(w)
        /\ asd0[w] = FALSE
        /\ Len(out[w]) = 1

\* C2 as stated: with the flag true, a message with ARBITRARY text K creates
\* the binding (sender_id, K) and resets the flag.
C2_Original_AnyTextBinds ==
    \A w \in Workers :
        (Finished(w) /\ asd0[w] = TRUE)
        => /\ users = Append(users0[w], [user_id |-> msg[w].from,
                                          api_key |-> msg[w].text])
           /\ asd = FALSE

\* C2 (amended): with the flag true, a message whose text K is none of
\* '/start', '/stop', '/status' appends the binding (sender_id, K) to the
\* users table and resets the flag to false.
C2_NonCommandTextBinds ==
    \A w \in Workers :
        (Finished(w) /\ asd0[w] = TRUE /\ msg[w].text \notin Commands)
        => /\ users = Append(users0[w], [user_id |-> msg[w].from,
                                          api_key |-> msg[w].text])
           /\ asd = FALSE

C2_Witness ==
    \E w \in Workers :
        /\ Finished(w) /\ asd0[w] = TRUE /\ msg[w].text \notin Commands
        /\ Len(users) = Len(users0[w]) + 1
        /\ asd = FALSE

\* C4: at most one binding row per user_id.
C4_AtMostOneBinding ==
    \A i, j \in 1..Len(users) :
        users[i].user_id = users[j].user_id => i = j

\* C5: for a sender with a binding whose key is K, '/start' issues exactly
\* one POST to <base>/api/key/K/action/start, sends no message and issues no
\* other HTTP call.
C5_BoundStartPosts ==
    \A w \in Workers :
        (Finished(w) /\ msg[w].text = "/start")
        => \A k \in KeysBefore(w) :
               /\ http[w] = <<Call("POST", k, "start")>>
               /\ out[w] = <<>>

\* C6: for a sender with a binding whose key is K, '/stop' issues exactly
\* one POST to <base>/api/key/K/action/stop and no other HTTP call.
C6_BoundStopPosts ==
    \A w \in Workers :
        (Finished(w) /\ msg[w].text = "/stop")
        => \A k \in KeysBefore(w) :
               http[w] = <<Call("POST", k, "stop")>>

\* the text s with every comma replaced by a newline is the text t
CommasToNewlines(s, t) ==
    /\ Len(t) = Len(s)
    /\ \A i \in 1..Len(s) :
           /\ s[i] = "," => t[i] = "\n"
           /\ s[i] # "," => t[i] = s[i]

\* C7: for a sender with a binding whose key is K, '/status' issues exactly
\* one GET to <base>/api/key/K/action/data and then sends the sender exactly
\* one message: the textual form of the response body with every comma
\* replaced by a newline.
C7_BoundStatusReports ==
    \A w \in Workers :
        (Finished(w) /\ msg[w].text = "/status")
        => \A k \in KeysBefore(w) :
               /\ http[w] = <<Call("GET", k, "data")>>
               /\ Len(out[w]) = 1
               /\ out[w][1].to = msg[w].from
               /\ CommasToNewlines(PyStr(resp[w].body), out[w][1].text)

\* C8: '/start' from a sender with no binding while the flag is already true
\* does nothing: no prompt, no HTTP call, no binding written, flag still true.
C8_SecondStartIsSilent ==
    \A w \in Workers :
        (Finished(w) /\ msg[w].text = "/start" /\ WasUnbound(w)
                     /\ asd0[w] = TRUE)
        => /\ out[w] = <<>>
           /\ http[w] = <<>>
           /\ users = users0[w]
           /\ asd = TRUE

C8_Witness ==
    \E w \in Workers :
        /\ Finished(w) /\ msg[w].text = "/start" /\ WasUnbound(w)
        /\ asd0[w] = TRUE

\* w's invocation was handled as a registration, not as a command: it did no
\* lookup, no HTTP call, sent nothing, and a row (sender, text) was added
HandledAsKey(w) ==
    /\ row[w] = <<>> /\ http[w] = <<>> /\ out[w] = <<>>
    /\ Len(users) = Len(users0[w]) + 1
    /\ users[Len(users)].user_id = msg[w].from
    /\ users[Len(users)].api_key = msg[w].text

\* C9 as stated: while the flag is true the next handled message, from any
\* sender and with ANY text, is interpreted as the key and not as a command.
C9_Original_NextMessageIsKey ==
    \A w \in Workers : (Finished(w) /\ asd0[w] = TRUE) => HandledAsKey(w)

\* C9 (amended): while the flag is true the next handled message, from any
\* sender (the one who was prompted or not, bound or not) and with any text
\* other than '/start', '/stop', '/status', is interpreted as the API key
\* and not as a command: it creates a binding for its sender with its text.
C9_NextNonCommandIsKey ==
    \A w \in Workers :
        (Finished(w) /\ asd0[w] = TRUE /\ msg[w].text \notin Commands)
        => HandledAsKey(w)

\* the key case of C9: the message taken as key is from a sender other than
\* the one whose '/start' was prompted
C9_Witness ==
    \E w \in Workers :
        /\ Finished(w) /\ asd0[w] = TRUE /\ msg[w].text \notin Commands
        /\ activator # <<msg[w].from>>
        /\ HandledAsKey(w)

\* the lines of the four branches of the if/elif chain
StartLines == {"L17", "L23", "L26", "L27", "L32", "L38", "L39"}

StopLines == {"L42", "L48", "L51", "L52", "L57"}

StatusLines == {"L60", "L66", "L69", "L70", "L75", "L76", "L79"}

RegisterLines == {"L81", "L88", "L89", "L90", "L92"}

\* the lines the first matching rule allows for a message
RuleLines(text, flag) ==
    IF text = "/start" THEN StartLines
    ELSE IF text = "/stop" THEN StopLines
    ELSE IF text = "/status" THEN StatusLines
    ELSE IF flag THEN RegisterLines
    ELSE {}

\* C10: dispatch is first-match-wins in the order '/start', '/stop',
\* '/status', registration: a message only ever executes lines of the one
\* rule it matches first, and a message whose text is exactly a command is
\* never stored as an API key and never clears the flag, even while the flag
\* is true.
C10_FirstMatchWins ==
    /\ \A w \in Workers :
           pc[w] \in {"idle", "L16", "done", "raised"}
                     \cup RuleLines(msg[w].text, asd0[w])
    /\ \A w \in Workers :
           (Finished(w) /\ msg[w].text \in Commands)
           => /\ users = users0[w]
              /\ (asd0[w] = TRUE => asd = TRUE)
    /\ \A i \in 1..Len(users) : users[i].api_key \notin Commands

C10_Witness ==
    \E w \in Workers :
        /\ Finished(w) /\ msg[w].text \in Commands /\ asd0[w] = TRUE
        /\ asd = TRUE
        /\ Len(users) > 0

----------------------------------------------------------------------------
(* Prompting, unknown texts, lookups that find nothing *)

\* C11: the key prompt is sent exactly once per activation of the flag, also
\* when handler invocations interleave: whenever a handler that has sent
\* the prompt executes line 39, the flag changes from false to true, and
\* the flag never changes from false to true in any other step.
C11_OnePromptPerActivation ==
    [][/\ \A w \in Workers :
              (pc[w] = "L39" /\ pc'[w] = "done")
              => /\ out[w] = <<PromptTo(msg[w].from)>>
                 /\ asd = FALSE /\ asd' = TRUE
       /\ (asd = FALSE /\ asd' = TRUE)
          => \E w \in Workers : pc[w] = "L39" /\ pc'[w] = "done"]_vars

\* C12: a message whose text is none of the commands, handled while the flag
\* is false, performs no store operation, no HTTP call, sends no message
\* and leaves the flag false: its handler only evaluates the if/elif chain.
C12_UnknownTextDoesNothing ==
    \A w \in Workers :
        (pc[w] # "idle" /\ msg[w].text \notin Commands /\ asd0[w] = FALSE)
        => /\ pc[w] \in {"L16", "done"}
           /\ conn[w] = FALSE /\ row[w] = <<>> /\ tx[w] = <<>>
           /\ http[w] = <<>> /\ out[w] = <<>>
           /\ users = users0[w]
           /\ asd = FALSE

C12_Witness ==
    \E w \in Workers :
        /\ Finished(w) /\ msg[w].text = "/help" /\ asd0[w] = FALSE
        /\ users # <<>>

\* C13: '/stop' or '/status' from a sender with no binding has no observable
\* action: no HTTP call, no message, no write to users, flag unchanged.
C13_UnboundStopStatusSilent ==
    \A w \in Workers :
        (Finished(w) /\ msg[w].text \in {"/stop", "/status"} /\ WasUnbound(w))
        => /\ http[w] = <<>>
           /\ out[w] = <<>>
           /\ users = users0[w]
           /\ asd = asd0[w]

\* an unbound sender's '/stop' or '/status' while another sender is bound,
\* with the flag true
C13_Witness ==
    \E w \in Workers :
        /\ Finished(w) /\ msg[w].text \in {"/stop", "/status"} /\ WasUnbound(w)
        /\ users # <<>> /\ asd = TRUE

\* C14: '/status' handled twice in a row for the same bound sender with the
\* same remote response sends the same text both times, and '/status' leaves
\* the flag and the users table as they were.
C14_StatusTwiceSameText ==
    \A w \in Workers :
        (Finished(w) /\ msg[w].text = "/status")
        => /\ asd = asd0[w]
           /\ users = users0[w]
           /\ (prev.from = msg[w].from /\ prev.body = resp[w].body)
              => (Len(out[w]) = 1 /\ out[w][1].text = prev.text)

C14_Witness ==
    \E w \in Workers :
        /\ Finished(w) /\ msg[w].text = "/status"
        /\ prev.from = msg[w].from /\ prev.body = resp[w].body
        /\ Len(prev.body) = 2
        /\ Len(out[w]) = 1

\* C15: bindings are never updated or deleted: a step either leaves users
\* unchanged or is the commit of the registration branch, which appends
\* one row after the unchanged existing rows.
C15_RowsOnlyAppended ==
    [][\/ users' = users
       \/ /\ \E w \in Workers : pc[w] = "L89" /\ pc'[w] = "L90"
          /\ Len(users') = Len(users) + 1
          /\ SubSeq(users', 1, Len(users)) = users]_vars

\* a second row was added for a user_id that already had one
C15_Witness ==
    \E i, j \in 1..Len(users) :
        i < j /\ users[i].user_id = users[j].user_id

\* C16: a connection is opened fresh for each store operation and closed at
\* its end: none is open when a connection is about to be opened, when the
\* handler has ended without error, or when an HTTP call or a message is
\* issued.
C16_ConnectionClosedAfterUse ==
    \A w \in Workers :
        /\ pc[w] \in {"L17", "L42", "L60", "L81"} => conn[w] = FALSE
        /\ Finished(w) => conn[w] = FALSE
        /\ pc[w] \in {"L32", "L57", "L75", "L76", "L79", "L38", "L39"}
           => conn[w] = FALSE
        /\ (http[w] # <<>> \/ out[w] # <<>>) => conn[w] = FALSE

\* a registration and a status report ended with the connection closed
C16_Witness ==
    \E w \in Workers :
        /\ Finished(w) /\ conn[w] = FALSE
        /\ msg[w].text = "/status" /\ out[w] # <<>>
        /\ users # <<>>

\* C17: a failure is not caught by the handler: the failing step does and
\* undoes nothing, after it the invocation only ends (no later step of the
\* handler runs), no HTTP call follows a failed lookup and no message is sent
\* to the sender after a failed GET or a failed parse.
C17_FailurePropagates ==
    [][\A w \in Workers :
          /\ (pc[w] # "raised" /\ pc'[w] = "raised")
             => /\ asd' = asd /\ users' = users
                /\ http'[w] = http[w] /\ out'[w] = out[w]
                /\ out[w] = <<>>
                /\ row[w] = <<>> => http[w] = <<>>
          /\ pc[w] = "raised"
             => /\ pc'[w] \in {"raised", "idle"}
                /\ asd' = asd /\ users' = users
          /\ (msg'[w].text = "/status" /\ out'[w] # <<>>) => resp'[w].ok]_vars

\* the parse of the status response failed after the GET was issued
C17_Witness ==
    \E w \in Workers :
        /\ pc[w] = "raised" /\ msg[w].text = "/status"
        /\ Len(http[w]) = 1 /\ out[w] = <<>>

----------------------------------------------------------------------------
(* Properties of interleaved handling, SpecConc *)

----------------------------------------------------------------------------
(* Properties of the oops library, SpecOops *)

\* the ids returned by the first n calls of the log, concatenated
RECURSIVE Published(_, _)
Published(calls, n) ==
    IF n = 0 THEN <<>> ELSE Published(calls, n - 1) \o calls[n].res

\* the index of the first filter that returns a true value
FirstRejecting(filters) ==
    CHOOSE j \in 1..Len(filters) :
        filters[j] /\ \A k \in 1..(j - 1) : ~filters[k]

\* C18: Config.publish: if any filter returns a true value, publish returns
\* None, no publisher (neither `publisher` nor any of `publishers`) is
\* called, the filters after it are not called, and report['id'] is left
\* unchanged.
C18_FilteredReportNotPublished ==
    (oops.fn = "publish" /\ \E j \in 1..Len(oops.filters) : oops.filters[j])
    => /\ oops.pc \in {"filters", "returned"}
       /\ oops.pc = "returned" => oops.result = Returned("None", <<>>)
       /\ \A c \in 1..Len(oops.calls) :
              /\ oops.calls[c].who = "filter"
              /\ oops.calls[c].idx = c
              /\ c <= FirstRejecting(oops.filters)
       /\ oops.report = oops.report0

\* the second filter rejects a report that has an id, with publishers set
C18_Witness ==
    /\ oops.fn = "publish" /\ oops.pc = "returned"
    /\ oops.filters = <<FALSE, TRUE>>
    /\ Len(oops.calls) = 2
    /\ oops.publisher = <<"fresh">> /\ oops.publishers # <<>>
    /\ oops.report0 = 7
    /\ oops.result.kind = "None"

\* C19: publish_to_many calls every supplied publisher exactly once, in
\* order, and returns the concatenation of their id lists; each publisher
\* after the first is called with report['id'] equal to the last id returned
\* so far, or with the report's id untouched when none was returned yet.
C19_ManyCallsAllInOrder ==
    (oops.fn = "many" /\ oops.pc = "returned")
    => /\ Len(oops.calls) = Len(oops.chain)
       /\ \A k \in 1..Len(oops.calls) :
              /\ oops.calls[k].who = "pub"
              /\ oops.calls[k].idx = k
              /\ LET sofar == Published(oops.calls, k - 1)
                 IN oops.calls[k].seen =
                        IF sofar # <<>> THEN sofar[Len(sofar)]
                        ELSE oops.report0
       /\ oops.result = Returned("list", Published(oops.calls, Len(oops.calls)))

\* the first publisher publishes nothing, the second returns two ids, the
\* third is called with the second of them
C19_Witness ==
    /\ oops.fn = "many" /\ oops.pc = "returned"
    /\ Len(oops.chain) = 3
    /\ oops.chain[1].kind = "fail" /\ oops.chain[2].kind = "pair"
    /\ oops.chain[3].kind = "inherit"
    /\ oops.report0 = 7
    /\ oops.calls[2].seen = 7 /\ oops.calls[3].seen = 12
    /\ oops.result.ids = <<2, 12, 12>>

\* C20: publish_with_fallback calls the supplied publishers in order until
\* one returns a non-empty id list, calls no publisher after the first one
\* that published, and returns exactly that publisher's ids, the empty
\* list if none published.
C20_FallbackStopsAtFirstPublished ==
    (oops.fn = "fallback" /\ oops.pc = "returned")
    => LET n == Len(oops.calls)
       IN /\ n <= Len(oops.chain)
          /\ \A k \in 1..n :
                 /\ oops.calls[k].who = "pub"
                 /\ oops.calls[k].idx = k
                 /\ oops.calls[k].seen = oops.report0
                 /\ k < n => oops.calls[k].res = <<>>
          /\ n < Len(oops.chain) => (n > 0 /\ oops.calls[n].res # <<>>)
          /\ oops.result.kind = "list"
          /\ oops.result.ids = IF n = 0 THEN <<>> ELSE oops.calls[n].res
          /\ oops.report = oops.report0

\* the primary publisher fails, the fallback publishes, a third is not called
C20_Witness ==
    /\ oops.fn = "fallback" /\ oops.pc = "returned"
    /\ Len(oops.chain) = 3
    /\ oops.chain[1].kind = "fail" /\ oops.chain[2].kind = "fresh"
    /\ Len(oops.calls) = 2
    /\ oops.result.ids = <<2>>

\* C21: when the AMQP server is unavailable (a connection error on connect
\* or on basic_publish), oops_amqp.Publisher leaves the caller's report
\* without a new id and returns None, without raising.
C21_ServerDownReturnsNone ==
    (oops.fn = "amqp" /\ oops.fault \in {"connect", "basic_publish"})
    => /\ oops.pc = "returned"
       /\ oops.report = oops.report0
       /\ oops.result = Returned("None", <<>>)

\* the calls of the publisher made for the file f of directory d
CallsFor(d, f) ==
    { c \in 1..Len(oops.calls) : oops.calls[c].idx = <<d, f>> }

StoredFiles ==
    UNION { { <<d, f>> : f \in 1..Len(oops.disk[d].files) } :
            d \in 1..Len(oops.disk) }

KindOf(df) == oops.disk[df[1]].files[df[2]].kind

OnDisk(df) == oops.disk[df[1]].files[df[2]].there

\* the true values a publisher can return: an id, or a list holding ids
TrueIds ==
    { [kind |-> k, ids |-> <<n>>] : k \in {"id", "list"}, n \in 1..100 }

\* the file df was passed to the publisher once, and is gone from the disk
\* exactly if the publisher returned a true value
PublishedOnce(df) ==
    /\ Cardinality(CallsFor(df[1], df[2])) = 1
    /\ \A c \in CallsFor(df[1], df[2]) :
           ~OnDisk(df) <=> oops.calls[c].res \in TrueIds

\* C22 as stated: republish passes EVERY non-.tmp file of a date directory
\* to the publisher and deletes it if and only if the publisher returned a
\* true id; a .tmp file is never passed to the publisher.
C22_Original_EveryNonTmpFilePublished ==
    (oops.fn = "republish" /\ oops.pc = "returned")
    => \A df \in StoredFiles :
           IF KindOf(df) = "tmp" THEN CallsFor(df[1], df[2]) = {}
           ELSE PublishedOnce(df)

\* C22 (amended): when republish returns, every non-.tmp file that holds a
\* readable report was passed to the publisher exactly once and is deleted
\* if and only if the publisher returned a true value (so it stays on disk
\* when the publisher returned None); a .tmp file or an empty report file is
\* never passed to the publisher, and is deleted exactly if its directory is
\* more than two days old.  At no time is a file deleted that the publisher
\* was called for and did not return a true value for.
C22_ReadableReportsRepublished ==
    oops.fn = "republish"
    => /\ \A df \in StoredFiles :
              /\ KindOf(df) # "report" => CallsFor(df[1], df[2]) = {}
              /\ (KindOf(df) = "report" /\ ~OnDisk(df)) => PublishedOnce(df)
       /\ oops.pc = "returned"
          => \A df \in StoredFiles :
                 IF KindOf(df) = "report" THEN PublishedOnce(df)
                 ELSE ~OnDisk(df) <=> oops.disk[df[1]].prune

\* a recent directory holds a .tmp file and a report the publisher returned
\* None for, a stale one a report that was published
C22_Witness ==
    /\ oops.fn = "republish" /\ oops.pc = "returned"
    /\ Len(oops.disk) = 2
    /\ ~oops.disk[1].prune /\ oops.disk[2].prune
    /\ Len(oops.disk[1].files) = 2 /\ Len(oops.disk[2].files) = 1
    /\ KindOf(<<1, 1>>) = "tmp" /\ KindOf(<<1, 2>>) = "report"
    /\ KindOf(<<2, 1>>) = "report"
    /\ Len(oops.calls) = 2
    /\ oops.calls[1].res = Returned("None", <<>>)
    /\ oops.calls[2].res.kind = "list"
    /\ OnDisk(<<1, 1>>) /\ OnDisk(<<1, 2>>) /\ ~OnDisk(<<2, 1>>)

\* the positions of the log at which who was called
CallsOf(who) == { c \in 1..Len(oops.calls) : oops.calls[c].who = who }

\* the message handed to handle_report is the sentinel
SentinelMessage ==
    oops.sentinel # "None" /\ oops.body.data = oops.sentinel

\* C23: Receiver.handle_report acknowledges a message only after
\* config.publish has returned without raising: if decoding or publishing
\* raises, the message is not acknowledged; a message equal to the sentinel
\* is acknowledged without being published and sets stopping to true.
C23_AckOnlyAfterPublish ==
    oops.fn = "handle_report"
    => /\ Cardinality(CallsOf("basic_ack")) <= 1
       /\ ~SentinelMessage
          => /\ ~oops.stopping
             /\ \A a \in CallsOf("basic_ack") :
                    /\ a = 2
                    /\ oops.calls[1].who = "publish"
                    /\ oops.calls[1].res.kind # "raised"
                    /\ Loads(oops.body.data) = "report"
             /\ oops.pc = "returned" => oops.calls[Len(oops.calls)].who = "basic_ack"
       /\ oops.pc = "raised" => CallsOf("basic_ack") = {}
       /\ SentinelMessage
          => /\ CallsOf("publish") = {}
             /\ oops.pc = "returned"
                => oops.stopping /\ Len(oops.calls) = 1
                                 /\ oops.calls[1].who = "basic_ack"

\* a report was published and then acknowledged, with a sentinel set
C23_Witness ==
    /\ oops.fn = "handle_report" /\ oops.pc = "returned"
    /\ oops.sentinel = "stop" /\ oops.body = [type |-> "str", data |-> "report"]
    /\ Len(oops.calls) = 2
    /\ oops.calls[1].who = "publish" /\ oops.calls[2].who = "basic_ack"

----------------------------------------------------------------------------
(* Bindings, calls and the flag over whole runs *)

\* C24: every binding ever inserted pairs a sender's id with the text of a
\* message that this same sender sent: for each row (u, k) of the users
\* table, k is the text of a message from u that was none of '/start',
\* '/stop', '/status'.
C24_RowsAreSendersOwnTexts ==
    \A i \in 1..Len(users) :
        /\ <<users[i].user_id, users[i].api_key>> \in received
        /\ users[i].api_key \notin Commands

\* two senders were bound in interleaved invocations
C24_Witness ==
    /\ Len(users) = 2
    /\ users[1].user_id # users[2].user_id
    /\ users[1].api_key # users[2].api_key

\* the keys of the rows of users whose user_id is s
KeysOf(s) == { users[i].api_key : i \in Matching(users, s) }

\* C25: every outbound HTTP call made while handling a message uses a key
\* taken from a binding row whose user_id is the sender of that message, in
\* every interleaving: the bot never calls the control API with a key that
\* is bound only to a different user.
C25_CallsUseSendersOwnKey ==
    \A w \in Workers : \A c \in 1..Len(http[w]) :
        \E k \in KeysOf(msg[w].from) :
            http[w][c].url \in { Url(k, a) : a \in {"start", "stop", "data"} }

\* a call is made for a sender whose binding was recorded while the prompt
\* of another sender was pending
C25_Witness ==
    \E w \in Workers :
        /\ http[w] # <<>>
        /\ activator # <<>> /\ activator # <<msg[w].from>>
        /\ KeysOf(activator[1]) = {}

\* no handler invocation is under way
Quiet == \A w \in Workers : pc[w] \in {"idle", "done", "raised"}

\* C26: with messages handled one at a time, whenever no handler is under
\* way the number of prompts sent minus the number of bindings inserted is 1
\* when the awaiting-key flag is true and 0 when it is false; the flag
\* starts false, only a '/start' of an unbound sender sets it, and only an
\* invocation that has inserted a binding clears it.
C26_FlagCountsPrompts ==
    /\ asd = FALSE
    /\ [](Quiet => hist.prompts - Len(users) = IF asd THEN 1 ELSE 0)
    /\ [][/\ (asd = FALSE /\ asd' = TRUE)
             => \E w \in Workers :
                    /\ pc[w] = "L39" /\ msg[w].text = "/start"
                    /\ KeysOf(msg[w].from) = {}
          /\ (asd = TRUE /\ asd' = FALSE)
             => \E w \in Workers :
                    /\ pc[w] = "L92"
                    /\ users = Append(users0[w], [user_id |-> msg[w].from,
                                                  api_key |-> msg[w].text])]_vars

\* a second prompt is pending after a first registration was completed
C26_Witness ==
    /\ Quiet
    /\ hist.prompts = 2 /\ Len(users) = 1 /\ asd = TRUE

\* C27: each activation of the awaiting-key flag results in at most one
\* inserted binding, also when two handler invocations for non-command
\* texts from different senders interleave at the granularity of the flag
\* read, the insert and the flag write.
C27_OneBindingPerActivation == Len(users) <= hist.activations

\* C28: failures leave the registration state retryable: if sending the key
\* prompt fails the flag is still false and no binding was written, and if
\* the insert fails (execute or commit raises) the flag is still true and
\* no binding for that message exists.
C28_FailuresRetryable ==
    [][\A w \in Workers :
          /\ (pc[w] = "L38" /\ pc'[w] = "raised")
             => /\ asd' = FALSE
                /\ users' = users0[w]
                /\ out'[w] = <<>>
          /\ (pc[w] \in {"L88", "L89"} /\ pc'[w] = "raised")
             => /\ asd' = TRUE
                /\ users' = users0[w]
                /\ tx'[w] = <<>>]_vars

\* the insert of a key failed after the connection was opened
C28_Witness ==
    \E w \in Workers :
        /\ pc[w] = "raised" /\ msg[w].text \notin Commands
        /\ conn[w] = TRUE
        /\ asd = TRUE /\ users = users0[w]

----------------------------------------------------------------------------
(* Properties of the recorded registrations, SpecReg *)

\* C29: registration completes end to end when undisturbed: if an unbound
\* sender A sends '/start' while the flag is false and the message handled
\* next is a non-command text K of A, then A is bound to K and the flag is
\* false, and a '/start' of A handled next issues one POST to
\* <base>/api/key/K/action/start and no new prompt.  Stated of invocations
\* that end without an exception.
C29_RegistrationCompletes ==
    \A w \in Workers :
        Finished(w)
        => /\ (/\ hist.reg.stage = 1 /\ msg[w].from = hist.reg.who
               /\ msg[w].text \notin Commands)
              => /\ users = Append(users0[w], [user_id |-> msg[w].from,
                                               api_key |-> msg[w].text])
                 /\ KeysOf(msg[w].from) = {msg[w].text}
                 /\ asd = FALSE
           /\ (/\ hist.reg.stage = 2 /\ msg[w].from = hist.reg.who
               /\ msg[w].text = "/start")
              => /\ http[w] = <<Call("POST", hist.reg.key, "start")>>
                 /\ out[w] = <<>>
                 /\ asd = FALSE

\* the '/start' that follows a completed registration has been handled,
\* with another sender bound before
C29_Witness ==
    \E w \in Workers :
        /\ Finished(w)
        /\ hist.reg.stage = 2 /\ msg[w].from = hist.reg.who
        /\ msg[w].text = "/start"
        /\ Len(http[w]) = 1

====
